---- MODULE Spec2Model ----
(***************************************************************************)
(* Model of seo_optimizer_gui.py: the row transformer make_seo_friendly,   *)
(* and the SEOOptimizerApp handlers upload_file, optimize_seo_descriptions *)
(* (run on a background thread per upload) and download_file.              *)
(*                                                                         *)
(* Python strings are sequences of one-character strings.  A DataFrame     *)
(* cell is a record [isstr, val]: isstr tells whether the Python value is  *)
(* a str, val is its text (for a non-str value, the text of its repr).     *)
(* A DataFrame is a record [columns, rows]; each row is a function from    *)
(* the column names to cells.  Python index 0 is index 1 here.             *)
(***************************************************************************)
EXTENDS Integers, Sequences, FiniteSets, TLC

VARIABLES
    \* ---- SEOOptimizerApp (UI thread and widgets) ----
    prompt_entry,      \* text of self.prompt_entry
    status_label,      \* text of self.status_label
    download_button,   \* state of self.download_button: "normal" / "disabled"
    input_path,        \* self.input_path
    original_df,       \* self.original_df
    optimized_df,      \* self.optimized_df
    ui_pc,             \* position of the UI thread inside upload_file
    \* ---- one background thread per started run ----
    pc,                \* pc[t]: "idle" (no thread), "start", "loop"
    df,                \* df[t]: local df of optimize_seo_descriptions
    src,               \* src[t]: the table copied at line 229
    seo_prompt,        \* seo_prompt[t]: local seo_prompt
    idx,               \* idx[t]: loop index (1-based)
    calls,             \* calls[t]: requests the run of thread t issued so far
    \* ---- one isolated call of make_seo_friendly ----
    m_description, m_seo_prompt, m_outcome, m_ret

appvars == <<prompt_entry, status_label, download_button, input_path,
             original_df, optimized_df,
             ui_pc, pc, df, src, seo_prompt, idx, calls>>
mvars == <<m_description, m_seo_prompt, m_outcome, m_ret>>
vars == <<appvars, mvars>>

\* ------------------------------------------------------------------ bounds
MaxLen == 3        \* longest string tried on make_seo_friendly alone
MaxRows == 2       \* data rows (after row zero) of the largest input file
MaxActive == 1     \* runs in progress at once (Spec); OverlapSpec allows one more

\* ----------------------------------------------------------------- strings
None == [none |-> TRUE]

Whitespace == {" "}

Alphabet == {"a", "A", "b", " "}

upper(c) ==
    CASE c = "a" -> "A" [] c = "b" -> "B" [] c = "g" -> "G" [] c = "o" -> "O"
      [] c = "w" -> "W" [] c = "e" -> "E" [] OTHER -> c

lower(c) ==
    CASE c = "A" -> "a" [] c = "B" -> "b" [] c = "G" -> "g" [] c = "O" -> "o"
      [] c = "W" -> "w" [] c = "E" -> "e" [] OTHER -> c

RECURSIVE lstrip(_)
lstrip(s) ==
    IF s # <<>> /\ Head(s) \in Whitespace THEN lstrip(Tail(s)) ELSE s

RECURSIVE rstrip(_)
rstrip(s) ==
    IF s # <<>> /\ s[Len(s)] \in Whitespace
    THEN rstrip(SubSeq(s, 1, Len(s) - 1)) ELSE s

\* str.strip(): whitespace removed at both ends
strip(s) == rstrip(lstrip(s))

\* str.capitalize(): first character upper-cased, ALL the others lower-cased
capitalize(s) ==
    [i \in 1..Len(s) |-> IF i = 1 THEN upper(s[i]) ELSE lower(s[i])]

Strings(n) == UNION {[1..k -> Alphabet] : k \in 0..n}

\* ------------------------------------------------------------------- cells
Str(s) == [isstr |-> TRUE, val |-> s]
NaN == [isstr |-> FALSE, val |-> <<"n", "a", "n">>]
Num(d) == [isstr |-> FALSE, val |-> d]

SENTINEL == <<"N","o"," ","d","e","s","c","r","i","p","t","i","o","n"," ",
              "p","r","o","v","i","d","e","d",".">>

PLACEHOLDER == <<"E","n","t","e","r"," ","c","u","s","t","o","m"," ","S","E","O",
                 " ","p","r","o","m","p","t"," ","h","e","r","e",".",".",".">>

\* -------------------------------------------------------- make_seo_friendly
\* The external service's behaviour on one request: it answers with a text,
\* or the call raises (network, auth, malformed response).
Outcomes(texts) ==
    {[ok |-> FALSE, content |-> <<>>]} \cup {[ok |-> TRUE, content |-> c] : c \in texts}

\* f"{seo_prompt}: '{description}'"
Prompt(description, prompt) == prompt \o <<":", " ", "'">> \o description \o <<"'">>

\* Mutant: the blank test without strip(), so that a whitespace-only
\* description is sent to the service.
make_seo_friendly_nostrip(description, prompt, outcome) ==
    IF ~description.isstr \/ description.val = <<>>
    THEN [result |-> SENTINEL, requests |-> <<>>, raised |-> FALSE]
    ELSE IF outcome.ok
         THEN [result |-> capitalize(strip(outcome.content)),
               requests |-> <<Prompt(description.val, prompt)>>,
               raised |-> FALSE]
         ELSE [result |-> capitalize(description.val),
               requests |-> <<Prompt(description.val, prompt)>>,
               raised |-> FALSE]

\* Mutant: no try/except around the call, so that a failing call raises.
make_seo_friendly_noexcept(description, prompt, outcome) ==
    IF ~description.isstr \/ strip(description.val) = <<>>
    THEN [result |-> SENTINEL, requests |-> <<>>, raised |-> FALSE]
    ELSE IF outcome.ok
         THEN [result |-> capitalize(strip(outcome.content)),
               requests |-> <<Prompt(description.val, prompt)>>,
               raised |-> FALSE]
         ELSE [result |-> <<>>,
               requests |-> <<Prompt(description.val, prompt)>>,
               raised |-> TRUE]

\* make_seo_friendly(description, seo_prompt) against a service behaving as
\* `outcome`: the value returned, the requests issued, whether it raised.
make_seo_friendly(description, prompt, outcome) ==
    IF ~description.isstr \/ strip(description.val) = <<>>
    THEN [result |-> SENTINEL, requests |-> <<>>, raised |-> FALSE]
    ELSE IF outcome.ok
         THEN [result |-> capitalize(strip(outcome.content)),
               requests |-> <<Prompt(description.val, prompt)>>,
               raised |-> FALSE]
         ELSE [result |-> capitalize(description.val),
               requests |-> <<Prompt(description.val, prompt)>>,
               raised |-> FALSE]

\* -------------------------------------------------------------- input files
Columns3 == {"Id", "Name", "Description"}

Digit(i) == CASE i = 0 -> "0" [] i = 1 -> "1" [] i = 2 -> "2" [] i = 3 -> "3"
              [] i = 4 -> "4" [] i = 5 -> "5" [] i = 6 -> "6" [] i = 7 -> "7"
              [] i = 8 -> "8" [] OTHER -> "9"

\* Descriptions of the data rows, in file order: text with inner upper case,
\* an empty cell (read by pandas as NaN), a whitespace-only cell, text.
DescPool == <<Str(<<"a", " ", "B">>), NaN, Str(<<" ">>), Str(<<"w", "E">>)>>

\* A parsed file: row zero carries `name0` in its Name cell and an empty
\* Description; n data rows follow, with ids "<id>1", "<id>2", ...
Table(cols, id, name0, n) ==
    [columns |-> cols,
     rows |-> [i \in 1..(n + 1) |->
                 [c \in cols |->
                    CASE c = "Id" -> Num(<<id, Digit(i - 1)>>)
                      [] c = "Name" -> IF i = 1 THEN name0 ELSE Str(<<"w", Digit(i - 1)>>)
                      [] OTHER -> IF i = 1 THEN NaN
                                  ELSE DescPool[((i - 2) % Len(DescPool)) + 1]]]]

EmptyTable(cols) == [columns |-> cols, rows |-> <<>>]

Paths == {"a.csv", "noid.csv", "noname.csv", "nodesc.xlsx",
          "blank.csv", "nan.xlsx", "empty.csv", "bad.xlsx"}

\* What pd.read_csv / pd.read_excel give for each path; None: the read raises.
ReadFile(path) ==
    CASE path = "a.csv"       -> Table(Columns3, "1", Str(<<" ", "g", "o">>), MaxRows)
      [] path = "noid.csv"    -> Table({"Name", "Description"}, "3", Str(<<"g", "o">>), 1)
      [] path = "noname.csv"  -> Table({"Id", "Description"}, "4", NaN, 1)
      [] path = "nodesc.xlsx" -> Table({"Id", "Name"}, "5", Str(<<"g", "o">>), 1)
      [] path = "blank.csv"   -> Table(Columns3, "6", Str(<<" ", " ">>), 1)
      [] path = "nan.xlsx"    -> Table(Columns3, "7", NaN, 0)
      [] path = "empty.csv"   -> EmptyTable(Columns3)
      [] OTHER                -> None

\* Texts the user may type into the prompt entry: blanks only, a prompt.
EntryTexts == {<<" ">>, <<"o", "g", " ">>}

\* Texts the service answers with during a run.
Replies == {<<" ", "b", "A">>}

\* One slot per background thread that may be alive at once.
Threads == 1..(MaxActive + 1)

\* ------------------------------------------------------------------ handlers
\* The two Treeviews that display_dataframe fills are written and never read
\* by any handler: their contents are not part of the state.

\* Mutant: the column check looks for 'Description' only.
MissingColumns_description_only(d) == "Description" \notin d.columns

\* line 231: the guard of the ValueError
MissingColumns(d) == "Description" \notin d.columns \/ "Name" \notin d.columns

\* Mutant: row zero is kept.
DropRowZero_kept(d) == d

\* line 235: df.drop(index=0).reset_index(drop=True)
DropRowZero(d) == [d EXCEPT !.rows = Tail(d.rows)]

\* line 240: df.at[idx, 'Description'] = optimized
SetDescription(d, i, text) == [d EXCEPT !.rows[i]["Description"] = Str(text)]

Active(t) == pc[t] \in {"start", "loop"}

\* The slots a new thread may take when at most `limit` runs may be alive.
FreeSlots(limit) == {t \in 1..limit : ~Active(t)}

\* upload_file, lines 193-205: a file is chosen (or the dialog is cancelled).
upload_file_begin(limit) ==
    /\ ui_pc = "idle"
    /\ \E file_path \in Paths \cup {""} :
         IF file_path = ""
         THEN UNCHANGED appvars
         ELSE /\ ReadFile(file_path) # None => FreeSlots(limit) # {}
              /\ input_path' = file_path
              /\ status_label' = "Processing..."
              /\ download_button' = "disabled"
              /\ ui_pc' = "loading"
              /\ UNCHANGED <<prompt_entry, original_df, optimized_df,
                             pc, df, src, seo_prompt, idx, calls>>
    /\ UNCHANGED mvars

\* upload_file, lines 207-224: the file is read and the run's thread started.
upload_file_load(limit) ==
    /\ ui_pc = "loading"
    /\ ui_pc' = "idle"
    /\ LET read == ReadFile(input_path) IN
         IF read = None
         THEN /\ status_label' = "Failed to load original file."
              /\ UNCHANGED <<original_df, pc, calls>>
         ELSE /\ FreeSlots(limit) # {}
              /\ LET t == CHOOSE f \in FreeSlots(limit) :
                             \A g \in FreeSlots(limit) : f <= g
                 IN /\ pc' = [pc EXCEPT ![t] = "start"]
                    /\ calls' = [calls EXCEPT ![t] = 0]
              /\ original_df' = read
              /\ UNCHANGED status_label
    /\ UNCHANGED <<prompt_entry, download_button, input_path, optimized_df,
                   df, src, seo_prompt, idx>>
    /\ UNCHANGED mvars

\* The user edits the prompt entry.
edit_prompt ==
    /\ ui_pc = "idle"
    /\ \E text \in EntryTexts : prompt_entry' = text
    /\ UNCHANGED <<status_label, download_button, input_path, original_df,
                   optimized_df, ui_pc, pc, df, src, seo_prompt, idx, calls>>
    /\ UNCHANGED mvars

\* download_file, lines 252-264: what to_excel is handed, None when the
\* handler only shows "No optimized file available.".
DownloadWrites == optimized_df

\* download_file; the button reacts only when enabled.  The file it writes
\* lies outside the application, whose state it leaves as it was.
download_file ==
    /\ ui_pc = "idle"
    /\ download_button = "normal"
    /\ \E save_path \in {"", "seo_optimized_data.xlsx"} :
         save_path # "" => DownloadWrites # None
    /\ UNCHANGED appvars
    /\ UNCHANGED mvars

\* lines 247-249: the except clause of optimize_seo_descriptions; the thread
\* ends and its locals are gone.
Failed(t) ==
    /\ status_label' = "Optimization failed."
    /\ pc' = [pc EXCEPT ![t] = "idle"]
    /\ df' = [df EXCEPT ![t] = None]
    /\ src' = [src EXCEPT ![t] = None]
    /\ seo_prompt' = [seo_prompt EXCEPT ![t] = <<>>]
    /\ idx' = [idx EXCEPT ![t] = 0]
    /\ calls' = [calls EXCEPT ![t] = 0]

\* optimize_seo_descriptions, lines 229-235: copy, column check, instruction,
\* row zero dropped.
run_begin(t) ==
    /\ pc[t] = "start"
    /\ LET d == original_df
           entry == strip(prompt_entry)
           hasrow0 == Len(d.rows) >= 1
       IN IF \/ MissingColumns(d)                              \* ValueError
             \/ entry = <<>> /\ ~hasrow0                       \* KeyError (loc)
             \/ entry = <<>> /\ "Name" \notin d.columns        \* KeyError (loc)
             \/ entry = <<>> /\ ~d.rows[1]["Name"].isstr       \* AttributeError
             \/ ~hasrow0                                       \* KeyError (drop)
          THEN Failed(t)
          ELSE /\ seo_prompt' = [seo_prompt EXCEPT ![t] =
                     IF entry # <<>> THEN entry ELSE strip(d.rows[1]["Name"].val)]
               /\ src' = [src EXCEPT ![t] = d]
               /\ df' = [df EXCEPT ![t] = DropRowZero(d)]
               /\ idx' = [idx EXCEPT ![t] = 1]
               /\ pc' = [pc EXCEPT ![t] = "loop"]
               /\ UNCHANGED <<status_label, calls>>
    /\ UNCHANGED <<prompt_entry, download_button, input_path, original_df,
                   optimized_df, ui_pc>>
    /\ UNCHANGED mvars

\* optimize_seo_descriptions, lines 237-241: one iteration of the row loop.
run_row(t) ==
    /\ pc[t] = "loop"
    /\ idx[t] <= Len(df[t].rows)
    /\ IF "Description" \notin df[t].columns                   \* KeyError (at)
       THEN Failed(t)
       ELSE \E outcome \in Outcomes(Replies) :
         LET r == make_seo_friendly(df[t].rows[idx[t]]["Description"],
                                     seo_prompt[t], outcome)
         IN IF r.raised
            THEN Failed(t)
            ELSE /\ calls' = [calls EXCEPT ![t] = @ + Len(r.requests)]
                 /\ df' = [df EXCEPT ![t] = SetDescription(@, idx[t], r.result)]
                 /\ idx' = [idx EXCEPT ![t] = @ + 1]
                 /\ UNCHANGED <<status_label, pc, src, seo_prompt>>
    /\ UNCHANGED <<prompt_entry, download_button, input_path, original_df,
                   optimized_df, ui_pc>>
    /\ UNCHANGED mvars

\* optimize_seo_descriptions, lines 243-245: the loop is over; the thread ends.
run_finish(t) ==
    /\ pc[t] = "loop"
    /\ idx[t] > Len(df[t].rows)
    /\ optimized_df' = df[t]
    /\ status_label' = "Optimization complete!"
    /\ download_button' = "normal"
    /\ pc' = [pc EXCEPT ![t] = "idle"]
    /\ df' = [df EXCEPT ![t] = None]
    /\ src' = [src EXCEPT ![t] = None]
    /\ seo_prompt' = [seo_prompt EXCEPT ![t] = <<>>]
    /\ idx' = [idx EXCEPT ![t] = 0]
    /\ calls' = [calls EXCEPT ![t] = 0]
    /\ UNCHANGED <<prompt_entry, input_path, original_df, ui_pc>>
    /\ UNCHANGED mvars

\* SEOOptimizerApp.__init__: widgets as created, lines 94-138 and 186-189.
InitApp ==
    /\ prompt_entry = PLACEHOLDER
    /\ status_label = "Upload a .xlsx or .csv file to optimize descriptions for SEO."
    /\ download_button = "normal"
    /\ input_path = ""
    /\ original_df = None
    /\ optimized_df = None
    /\ ui_pc = "idle"
    /\ pc = [t \in Threads |-> "idle"]
    /\ df = [t \in Threads |-> None]
    /\ src = [t \in Threads |-> None]
    /\ seo_prompt = [t \in Threads |-> <<>>]
    /\ idx = [t \in Threads |-> 0]
    /\ calls = [t \in Threads |-> 0]

NoCall ==
    /\ m_description = NaN
    /\ m_seo_prompt = <<>>
    /\ m_outcome = None
    /\ m_ret = None

Init == InitApp /\ NoCall

ThreadStep(t) == run_begin(t) \/ run_row(t) \/ run_finish(t)

\* The application used as section 5 of the specification intends: a file is
\* uploaded only while no more than MaxActive - 1 runs are in progress.
Next ==
    \/ upload_file_begin(MaxActive)
    \/ upload_file_load(MaxActive)
    \/ edit_prompt
    \/ download_file
    \/ \E t \in Threads : run_begin(t)
    \/ \E t \in Threads : run_row(t)
    \/ \E t \in Threads : run_finish(t)

Spec == Init /\ [][Next]_vars

\* The scheduler runs every started thread; each external call returns or
\* raises (the client enforces its own timeout).
FairSpec == Spec /\ \A t \in Threads : WF_vars(ThreadStep(t))

\* The application as the code allows it: upload_file does not look at the
\* runs in progress, so one more run may be started while others are alive.
NextOverlap ==
    \/ upload_file_begin(MaxActive + 1)
    \/ upload_file_load(MaxActive + 1)
    \/ edit_prompt
    \/ download_file
    \/ \E t \in Threads : run_begin(t)
    \/ \E t \in Threads : run_row(t)
    \/ \E t \in Threads : run_finish(t)

OverlapSpec == Init /\ [][NextOverlap]_vars

\* ------------------------------------------- make_seo_friendly on its own
Descriptions == {NaN, Num(<<"7">>)} \cup {Str(s) : s \in Strings(MaxLen)}

Instructions == {<<>>, <<"g", "o">>, PLACEHOLDER}

InitT ==
    /\ InitApp
    /\ m_description \in Descriptions
    /\ m_seo_prompt \in Instructions
    /\ m_outcome = None
    /\ m_ret = None

\* One call make_seo_friendly(m_description, m_seo_prompt), the service
\* answering with any text or failing.
call_make_seo_friendly ==
    /\ m_ret = None
    /\ \E outcome \in Outcomes(Strings(MaxLen)) :
         /\ m_outcome' = outcome
         /\ m_ret' = make_seo_friendly(m_description, m_seo_prompt, outcome)
    /\ UNCHANGED <<m_description, m_seo_prompt>>
    /\ UNCHANGED appvars

NextT == call_make_seo_friendly

SpecT == InitT /\ [][NextT]_vars

\* ================================================================ properties
\* Vocabulary of the properties, stated without the operators of the model.
AllBlank(s) == \A i \in 1..Len(s) : s[i] \in Whitespace

\* A cell that is empty, whitespace-only or no string at all.
BlankCell(c) == ~c.isstr \/ AllBlank(c.val)

\* s with its first character upper-cased and every other character as it is.
UpperFirst(s) == [i \in 1..Len(s) |-> IF i = 1 THEN upper(s[i]) ELSE s[i]]

\* res has one row per row of tbl after row zero, in the same order, and
\* differs from it in no column but Description.
ComputedFrom(res, tbl) ==
    /\ res.columns = tbl.columns
    /\ Len(res.rows) = Len(tbl.rows) - 1
    /\ \A i \in 1..Len(res.rows) :
         \A c \in res.columns \ {"Description"} : res.rows[i][c] = tbl.rows[i + 1][c]

NoRunInProgress == \A t \in Threads : ~Active(t)

\* Thread t executes lines 229-235 in this step.
Begins(t) == pc[t] = "start" /\ pc'[t] # "start"

\* This step is the except clause of the run: nothing stored, nothing enabled.
FailsHere(t) ==
    /\ pc'[t] = "idle"
    /\ status_label' = "Optimization failed."
    /\ optimized_df' = optimized_df
    /\ download_button' = download_button

\* This step is the end of the run of thread t: result stored, download enabled.
CompletesHere(t) ==
    /\ pc'[t] = "idle"
    /\ status_label' = "Optimization complete!"
    /\ optimized_df' = df[t]
    /\ download_button' = "normal"

\* ---------------------------------------------------------------------- C1
\* C1: for a description that is blank, whitespace-only or not a string, and
\* any instruction, make_seo_friendly returns "No description provided." and
\* issues no request to the service (whatever the service would have done).
C1_BlankGivesSentinelWithoutCall ==
    (m_ret # None /\ BlankCell(m_description)) =>
        /\ m_ret.result = SENTINEL
        /\ m_ret.requests = <<>>
        /\ ~m_ret.raised

\* A whitespace-only description of two characters was transformed while the
\* service was ready to answer.
C1_Witness ==
    /\ m_ret # None
    /\ m_description.isstr
    /\ Len(m_description.val) >= 2
    /\ AllBlank(m_description.val)
    /\ m_outcome.ok

\* ---------------------------------------------------------------------- C2
\* C2: for a non-blank string description, when the call fails the function
\* does not raise, has made exactly one request, and returns the original
\* description with its first letter capitalized (the rest as it was).
C2_FailedCallReturnsOriginalFirstCapitalized ==
    (m_ret # None /\ ~BlankCell(m_description) /\ ~m_outcome.ok) =>
        /\ ~m_ret.raised
        /\ Len(m_ret.requests) = 1
        /\ m_ret.result = UpperFirst(m_description.val)

\* ---------------------------------------------------------------------- C3
\* C3: for a non-blank string description, when the call succeeds the function
\* returns the service's text with its first character capitalized and every
\* other character unchanged (the text taken after the trimming of its
\* surrounding whitespace, which the claim leaves out).
C3_ReplyFirstCapitalizedRestUnchanged ==
    (m_ret # None /\ ~BlankCell(m_description) /\ m_outcome.ok) =>
        m_ret.result = UpperFirst(strip(m_outcome.content))

C5_BlankInstructionFails ==
    [][\A t \in Threads :
         ( /\ Begins(t)
           /\ Columns3 \subseteq original_df.columns
           /\ Len(original_df.rows) >= 1
           /\ BlankCell(original_df.rows[1]["Name"])
           /\ AllBlank(prompt_entry) ) =>
             FailsHere(t) /\ calls[t] = 0]_vars

\* ---------------------------------------------------------------------- C6
\* C6: when a run on a table of N+1 rows, N >= 1, completes, the result it
\* stores has N rows, row i of the result is row i+1 of the table, and the
\* two differ in no column but Description.
C6_ResultKeepsRowsOrderAndOtherColumns ==
    [][\A t \in Threads :
         (pc[t] = "loop" /\ pc'[t] # "loop" /\ CompletesHere(t)
            /\ Len(src[t].rows) >= 2) =>
             /\ Len(optimized_df'.rows) = Len(src[t].rows) - 1
             /\ ComputedFrom(optimized_df', src[t])]_vars

\* A completed run has stored a result of at least two rows.
C6_Witness ==
    /\ status_label = "Optimization complete!"
    /\ optimized_df # None
    /\ Len(optimized_df.rows) >= 2
    /\ optimized_df.rows[1]["Id"] # optimized_df.rows[2]["Id"]

\* ---------------------------------------------------------------------- C7
\* The claim's validation: required columns present, and a non-empty
\* instruction, typed by the user or found in row zero's Name cell.
Validated(d, entry) ==
    /\ {"Name", "Description"} \subseteq d.columns
    /\ \/ entry # PLACEHOLDER /\ ~AllBlank(entry)
       \/ /\ Len(d.rows) >= 1
          /\ ~BlankCell(d.rows[1]["Name"])

\* C7 as claimed: a run started on a table that passed validation does not
\* end in the failed state (it goes on to the row loop and to completion).
C7_ValidatedRunNeverFails ==
    [][\A t \in Threads :
         /\ (Begins(t) /\ Validated(original_df, prompt_entry)) => pc'[t] = "loop"
         /\ (pc[t] = "loop" /\ pc'[t] # "loop") => CompletesHere(t)]_vars

\* C7 as amended: a run started on a table that passed validation and has at
\* least row zero enters the row loop; a run in the row loop leaves it only
\* by completing (status complete, result stored), whatever calls fail; and
\* no run stays in progress for ever.
C7_ValidatedRunWithRowZeroCompletes ==
    /\ \A t \in Threads : []<>(~Active(t))
    /\ [][\A t \in Threads :
            /\ ( /\ Begins(t)
                 /\ Validated(original_df, prompt_entry)
                 /\ Len(original_df.rows) >= 1 ) => pc'[t] = "loop"
            /\ (pc[t] = "loop" /\ pc'[t] # "loop") => CompletesHere(t)]_vars

\* A run is complete whose first data row kept its original text, lower-cased
\* after the first letter: the call for that row had failed.
C7_Witness ==
    /\ status_label = "Optimization complete!"
    /\ optimized_df # None
    /\ Len(optimized_df.rows) >= 1
    /\ optimized_df.rows[1]["Description"] = Str(<<"A", " ", "b">>)

\* ---------------------------------------------------------------------- C8
\* C8: the download button is enabled only while no run is in progress.
C8_DownloadEnabledOnlyWhenNoRunInProgress ==
    download_button = "normal" => NoRunInProgress

\* ---------------------------------------------------------------------- C9
\* C9: the instruction of a run is the trimmed text the user typed into the
\* prompt entry when that is not blank, otherwise row zero's trimmed Name
\* (so with the entry untouched since start-up, row zero's Name); and it is
\* the same for every row of the run.
C9_InstructionIsUserTextElseRowZeroName ==
    [][\A t \in Threads :
         /\ (pc[t] = "start" /\ pc'[t] = "loop") =>
              seo_prompt'[t] =
                  IF prompt_entry # PLACEHOLDER /\ ~AllBlank(prompt_entry)
                  THEN strip(prompt_entry)
                  ELSE strip(original_df.rows[1]["Name"].val)
         /\ (pc[t] = "loop" /\ pc'[t] = "loop") => seo_prompt'[t] = seo_prompt[t]]_vars

\* --------------------------------------------------------------------- C10
\* C10: whenever no run is in progress and download is enabled, the table
\* download_file writes was computed from the table of the latest upload.
C10_DownloadWritesResultOfLatestUpload ==
    (NoRunInProgress /\ ui_pc = "idle" /\ download_button = "normal"
        /\ DownloadWrites # None) =>
        ComputedFrom(DownloadWrites, original_df)

====
